---- MODULE Spec2Model ----
(***************************************************************************)
(* Retrieval-and-answer-gating core of the rfx email agent: the pgvector   *)
(* store behind EmbeddingsDAO, the legacy VectorStore, document ingestion  *)
(* and RAGService.send_message.                                            *)
(*                                                                         *)
(* Similarities are integers on the scale 0..MaxSim (MaxSim stands for     *)
(* the float 1.0).  An embedding vector is a point on that scale and the   *)
(* storage engine's "1 - cosine_distance" is MaxSim minus the distance of  *)
(* two points.                                                             *)
(***************************************************************************)
EXTENDS Integers, Sequences, FiniteSets, TLC

\* ------------------------------------------------------------------ bounds
MaxSim == 4        \* resolution of the similarity scale
MaxRows == 3       \* rows the embeddings table may hold
MaxLimit == 2      \* largest explicit limit / top_k a caller passes
MaxTableRows == 2  \* rows of the largest DataFrame

\* --------------------------------------------------------------- constants
DefaultLimit == 5  \* query_embeddings(self, query, limit=5)

None == <<>>
Some(x) == <<x>>

Abs(x) == IF x < 0 THEN -x ELSE x
Min2(a, b) == IF a < b THEN a ELSE b

\* Thresholds the deployment may configure (environment / constructor).
Thresholds == {1, 2, 3}

\* Chunk texts and query messages the model draws from.
Texts == {"paris", "london", "python"}
Messages == {"", "capital of france?"}

\* litellm.embedding(model=EMBEDDING_MODEL, input=[text]): an opaque,
\* deterministic map from text to a vector.
EmbeddingOf(text) ==
  CASE text = "paris" -> 0
    [] text = "london" -> 1
    [] text = "python" -> 2
    [] text = "capital of france?" -> 0
    [] OTHER -> MaxSim

\* 1 - Embedding.embedding.cosine_distance(query_embedding)
Similarity(vec, query_vec) == MaxSim - Abs(vec - query_vec)

\* Source files under docs_dir and the chunks the splitter yields for them.
Files == {"a.pdf", "b.md"}
SplitNodes(file) ==
  IF file = "a.pdf" THEN <<"paris", "london">> ELSE <<"python">>

VARIABLES
  SIMILARITY_THRESHOLD,       \* config.py: floor applied by EmbeddingsDAO
  similarity_threshold,       \* RAGService.similarity_threshold (T_context)
  MIN_SIMILARITY_TO_ANSWER,   \* T_min imported by rag_service / excel_handler
  documents,                  \* committed rows of table "documents" (ORM)
  embeddings,                 \* committed rows of table "embeddings"
  vs_documents,               \* rows of the legacy VectorStore table
  vs_embedding_implemented,   \* VectorStore._generate_embedding overridden?
  pending,                    \* Embedding objects staged in a caller's session
  runs,                       \* per worker: the open process_pdf/_markdown call
  batch,                      \* progress of process_all_documents
  interrupted,                \* files whose ingestion broke off after a flush
  excel,                      \* the table _process_questions is working on
  runner,                     \* EmailAgentRunner.run and the email in hand
  last                        \* observation of the most recent call

vars == <<SIMILARITY_THRESHOLD, similarity_threshold, MIN_SIMILARITY_TO_ANSWER,
          documents, embeddings, vs_documents, vs_embedding_implemented,
          pending, runs, batch, interrupted, excel, runner, last>>

\* Uncommitted work: open sessions and the batch loop.
sessions == <<pending, runs, batch, interrupted, excel, runner>>

config == <<SIMILARITY_THRESHOLD, similarity_threshold,
            MIN_SIMILARITY_TO_ANSWER, vs_embedding_implemented>>

\* The observation record; every call fills the fields it has.
NoCall ==
  [op |-> "none", message |-> "", limit |-> 0, outcome |-> "none",
   matches |-> <<>>, response |-> [text |-> "", max_similarity |-> None],
   prompt |-> <<>>, completion_calls |-> 0, threshold |-> 0,
   document_id |-> 0, dim |-> 0, extractions |-> 0, embedding_calls |-> 0,
   error |-> None, url |-> None, attempted |-> {}, skipped |-> {},
   table |-> <<>>, calls |-> <<>>, answers |-> <<>>, scores |-> <<>>,
   results |-> <<>>, failure |-> "none"]

\* Embedding.embedding is Vector(3072); the provider may be configured with
\* a model of another size (db_handler._create_test_embedding uses 1536).
VectorDim == 3072
ProviderDims == {1536, 3072}

\* Threads that may run an ingestion call: the startup ingestion and the
\* HTTP endpoint.
Workers == {"startup", "http"}

\* A worker with no ingestion call in progress.
IdleRun ==
  [pc |-> "idle", file |-> "", document_id |-> 0, new_document |-> FALSE,
   nodes |-> <<>>, chunks |-> <<>>, extractions |-> 0, embedding_calls |-> 0]

\* process_all_documents not running.
IdleBatch ==
  [pc |-> "idle", queue |-> <<>>, attempted |-> {}, skipped |-> {},
   failed |-> {}]

\* No table being processed.
IdleExcel ==
  [pc |-> "idle", df |-> <<>>, questions |-> <<>>, results |-> <<>>,
   calls |-> <<>>]

\* autoincrement primary key: a value above every id in use.
NextId(rows) ==
  IF rows = <<>> THEN 1
  ELSE 1 + (CHOOSE m \in {rows[i].id : i \in 1..Len(rows)} :
              \A j \in 1..Len(rows) : rows[j].id <= m)

\* ------------------------------------------------------------ EmbeddingsDAO

\* Rows the WHERE clause of EmbeddingsDAO.query_embeddings keeps: joined to
\* their Document and with similarity >= SIMILARITY_THRESHOLD.
\* Mutant of QualifyingRows: the WHERE clause has no similarity floor.
QualifyingRows_unfiltered(query_embedding) ==
  {i \in 1..Len(embeddings) :
     \E d \in 1..Len(documents) : documents[d].id = embeddings[i].document_id}

QualifyingRows(query_embedding) ==
  {i \in 1..Len(embeddings) :
     /\ \E d \in 1..Len(documents) : documents[d].id = embeddings[i].document_id
     /\ Similarity(embeddings[i].embedding, query_embedding)
          >= SIMILARITY_THRESHOLD}

DocumentById(id) ==
  documents[CHOOSE d \in 1..Len(documents) : documents[d].id = id]

\* DocumentMatch(text=row[0], embedding_metadata=row[1], document=row[2],
\*               similarity=float(row[3]))
DocumentMatch(i, query_embedding) ==
  [text |-> embeddings[i].text,
   embedding_metadata |-> embeddings[i].embedding_metadata,
   document |-> DocumentById(embeddings[i].document_id),
   similarity |-> Similarity(embeddings[i].embedding, query_embedding)]

\* The statement has a LIMIT but no ORDER BY: the engine may hand back any
\* `limit` of the qualifying rows, in any order.
QueryResults(query_embedding, limit) ==
  LET rows == QualifyingRows(query_embedding)
      n == Min2(limit, Cardinality(rows))
      orders == {f \in [1..n -> rows] :
                   \A a, b \in 1..n : a # b => f[a] # f[b]}
  IN  {[k \in 1..n |-> DocumentMatch(f[k], query_embedding)] : f \in orders}

\* EmbeddingsDAO.query_embeddings called directly with an explicit limit.
query_embeddings(query, limit, embed_ok) ==
  /\ IF embed_ok
       THEN \E result \in QueryResults(EmbeddingOf(query), limit) :
              last' = [NoCall EXCEPT !.op = "query_embeddings",
                                     !.message = query, !.limit = limit,
                                     !.outcome = "returned",
                                     !.matches = result]
       ELSE last' = [NoCall EXCEPT !.op = "query_embeddings",
                                   !.message = query, !.limit = limit,
                                   !.outcome = "EmbeddingsError"]
  /\ UNCHANGED <<config, sessions, documents, embeddings, vs_documents>>

\* EmbeddingsDAO.add_text with session=None: embed, insert, commit.  The
\* foreign key to documents.id rejects an unknown document_id and the
\* Vector(3072) column a vector of another length; `dim` is the length of
\* the vector the provider returned.
add_text(text, document_id, embedding_metadata, embed_ok, dim) ==
  /\ Len(embeddings) < MaxRows
  /\ NextId(embeddings) <= MaxRows + 1
  /\ IF /\ embed_ok
        /\ dim = VectorDim
        /\ \E d \in 1..Len(documents) : documents[d].id = document_id
       THEN /\ embeddings' = Append(embeddings,
                 [id |-> NextId(embeddings), text |-> text,
                  embedding |-> EmbeddingOf(text),
                  embedding_metadata |-> embedding_metadata,
                  document_id |-> document_id])
            /\ last' = [NoCall EXCEPT !.op = "add_text", !.message = text,
                                      !.document_id = document_id,
                                      !.dim = dim, !.embedding_calls = 1,
                                      !.outcome = "returned"]
       ELSE /\ UNCHANGED embeddings
            /\ last' = [NoCall EXCEPT !.op = "add_text", !.message = text,
                                      !.document_id = document_id,
                                      !.dim = dim, !.embedding_calls = 1,
                                      !.outcome = "EmbeddingsError"]
  /\ UNCHANGED <<config, sessions, documents, vs_documents>>

\* The sequence without its i-th element.
RemoveAt(rows, i) ==
  [j \in 1..(Len(rows) - 1) |-> IF j < i THEN rows[j] ELSE rows[j + 1]]

\* Rows whose text equals the argument exactly (Embedding.text == text).
RowsWithText(text) == {i \in 1..Len(embeddings) : embeddings[i].text = text}

\* Mutant of delete_embedding: every row with that text is deleted.
delete_embedding_all(text) ==
  /\ embeddings' = SelectSeq(embeddings, LAMBDA e : e.text # text)
  /\ last' = [NoCall EXCEPT !.op = "delete_embedding", !.message = text,
                            !.outcome = "returned"]
  /\ UNCHANGED <<config, sessions, documents, vs_documents>>

\* EmbeddingsDAO.delete_embedding: .first() of the rows with that text (no
\* ORDER BY, so any of them), deleted and committed; no row, no write.
delete_embedding(text) ==
  /\ IF RowsWithText(text) = {}
       THEN UNCHANGED embeddings
       ELSE \E i \in RowsWithText(text) :
              embeddings' = RemoveAt(embeddings, i)
  /\ last' = [NoCall EXCEPT !.op = "delete_embedding", !.message = text,
                            !.outcome = "returned"]
  /\ UNCHANGED <<config, sessions, documents, vs_documents>>

\* What a flush of one staged Embedding object does: the Vector(3072) bind
\* and the documents.id foreign key accept it or not.
Insertable(row) ==
  /\ row.dim = VectorDim
  /\ \E d \in 1..Len(documents) : documents[d].id = row.document_id

\* EmbeddingsDAO.add_text with the caller's session: embed, session.add,
\* return.  Nothing is flushed, so only the embedding call can fail here.
add_text_session(text, document_id, embedding_metadata, embed_ok, dim) ==
  /\ Len(embeddings) + Len(pending) < MaxRows
  /\ NextId(embeddings) + Len(pending) <= MaxRows + 1
  /\ IF embed_ok
       THEN /\ pending' = Append(pending,
                 [text |-> text, document_id |-> document_id, dim |-> dim,
                  embedding_metadata |-> embedding_metadata])
            /\ last' = [NoCall EXCEPT !.op = "add_text_session",
                                      !.message = text,
                                      !.document_id = document_id,
                                      !.dim = dim, !.embedding_calls = 1,
                                      !.outcome = "returned"]
       ELSE /\ UNCHANGED pending
            /\ last' = [NoCall EXCEPT !.op = "add_text_session",
                                      !.message = text,
                                      !.document_id = document_id,
                                      !.dim = dim, !.embedding_calls = 1,
                                      !.outcome = "EmbeddingsError"]
  /\ UNCHANGED <<config, runner, runs, batch, interrupted, excel, documents,
                 embeddings, vs_documents>>

\* Ids given to staged rows, in staging order.
RECURSIVE InsertAll(_, _)
InsertAll(rows, staged) ==
  IF staged = <<>> THEN rows
  ELSE InsertAll(Append(rows,
                   [id |-> NextId(rows), text |-> Head(staged).text,
                    embedding |-> EmbeddingOf(Head(staged).text),
                    embedding_metadata |-> Head(staged).embedding_metadata,
                    document_id |-> Head(staged).document_id]),
                 Tail(staged))

\* The caller of add_text(session=...) commits: the staged rows are flushed
\* together; one the database rejects raises the driver's error out of the
\* caller's commit and the transaction rolls back.
session_commit ==
  /\ pending # <<>>
  /\ IF \A i \in 1..Len(pending) : Insertable(pending[i])
       THEN /\ embeddings' = InsertAll(embeddings, pending)
            /\ last' = [NoCall EXCEPT !.op = "session_commit",
                                      !.outcome = "returned"]
       ELSE /\ UNCHANGED embeddings
            /\ last' = [NoCall EXCEPT !.op = "session_commit",
                                      !.outcome = "SQLAlchemyError"]
  /\ pending' = <<>>
  /\ UNCHANGED <<config, runner, runs, batch, interrupted, excel, documents,
                 vs_documents>>

\* --------------------------------------------------------- DocumentProcessor

\* _create_document: the row for file_path, or a new unprocessed one.
HasDocument(file_path) ==
  \E d \in 1..Len(documents) : documents[d].filepath = file_path

\* Mutant of ChunkRows: chunk_index counts from one.
ChunkRows_one_based(file_path, document_id, first_id) ==
  LET nodes == SplitNodes(file_path)
  IN  [i \in 1..Len(nodes) |->
         [id |-> first_id + i - 1, text |-> nodes[i],
          embedding |-> EmbeddingOf(nodes[i]),
          embedding_metadata |-> [source |-> file_path, chunk_index |-> i,
                                  total_chunks |-> Len(nodes)],
          document_id |-> document_id]]

\* _process_text: one Embedding per node, tagged source/chunk_index/total.
ChunkRows(file_path, document_id, first_id) ==
  LET nodes == SplitNodes(file_path)
  IN  [i \in 1..Len(nodes) |->
         [id |-> first_id + i - 1, text |-> nodes[i],
          embedding |-> EmbeddingOf(nodes[i]),
          embedding_metadata |-> [source |-> file_path, chunk_index |-> i - 1,
                                  total_chunks |-> Len(nodes)],
          document_id |-> document_id]]

\* process_pdf / process_markdown: create the Document, extract, embed and
\* add every chunk, mark processed, then commit once.  Any exception leaves
\* the session uncommitted and is swallowed by the handler.
process_file(file_path, succeeds) ==
  /\ Len(embeddings) + Len(SplitNodes(file_path)) <= MaxRows
  /\ NextId(embeddings) + Len(SplitNodes(file_path)) <= MaxRows + 2
  /\ IF HasDocument(file_path) \/ ~succeeds
       THEN UNCHANGED <<documents, embeddings>>
       ELSE LET doc_id == NextId(documents)
            IN  /\ documents' = Append(documents,
                     [id |-> doc_id, filepath |-> file_path, url |-> None,
                      processed |-> TRUE])
                /\ embeddings' = embeddings
                     \o ChunkRows(file_path, doc_id, NextId(embeddings))
  /\ last' = [NoCall EXCEPT !.op = "process_file", !.message = file_path,
                            !.outcome = "returned"]
  /\ UNCHANGED <<config, sessions, vs_documents>>

\* ------------------------------------------- DocumentProcessor, step by step

\* docs_dir.glob("*.pdf") and docs_dir.glob("*.md").
Pdfs == {"a.pdf"}
Markdowns == {"b.md"}

\* The files in the order process_all_documents visits them: PDFs first.
DirListing == <<"a.pdf", "b.md">>

\* The method that ingests a file of this kind.
ProcessOp(file_path) ==
  IF file_path \in Pdfs THEN "process_pdf" ELSE "process_markdown"

\* A committed Document of that filepath with processed = true.
IsProcessed(file_path) ==
  \E d \in 1..Len(documents) :
    documents[d].filepath = file_path /\ documents[d].processed

\* _should_process_file: no Document yet, or one not processed.
ShouldProcessFile(file_path) == ~IsProcessed(file_path)

\* Committed chunks owned by the Document of that filepath.
ChunksOf(file_path) ==
  {i \in 1..Len(embeddings) :
     \E d \in 1..Len(documents) :
       /\ documents[d].filepath = file_path
       /\ embeddings[i].document_id = documents[d].id}

\* What a returned process_pdf / process_markdown call is observed to have
\* done; `error` is the exception its handler printed, if any.
Returned(run, error) ==
  [NoCall EXCEPT !.op = ProcessOp(run.file), !.message = run.file,
                 !.outcome = "returned", !.document_id = run.document_id,
                 !.extractions = run.extractions,
                 !.embedding_calls = run.embedding_calls, !.error = error]

\* Mutant of CommittedAfterRollback: flushed chunks survive the rollback.
CommittedAfterRollback_keeps(run) == embeddings \o run.chunks

\* Leaving the `with Session` block without commit: what was only flushed
\* is rolled back, the committed rows are what they were.
CommittedAfterRollback(run) == embeddings

\* Mutant of DocumentsAfterRollback: the Document row that the run created
\* stays, not processed.
DocumentsAfterRollback_keeps(run) ==
  IF run.new_document
  THEN Append(documents, [id |-> run.document_id, filepath |-> run.file,
                          url |-> None, processed |-> FALSE])
  ELSE documents

\* The Document that _create_document added was only flushed: it goes with
\* the rollback.
DocumentsAfterRollback(run) == documents

\* Mutant of BatchAfterFailure: the failure ends the loop.
BatchAfterFailure_aborts(file_path) ==
  IF batch.pc = "running"
  THEN [batch EXCEPT !.failed = @ \cup {file_path}, !.queue = <<>>]
  ELSE batch

\* The loop of process_all_documents after a failure inside one file's
\* call: the error is printed and the loop goes on.
BatchAfterFailure(file_path) ==
  IF batch.pc = "running"
  THEN [batch EXCEPT !.failed = @ \cup {file_path}]
  ELSE batch

\* `except Exception` of process_pdf / process_markdown: the session is
\* closed without commit, the error printed, the call returns.
Abort(w, run, error) ==
  /\ runs' = [runs EXCEPT ![w] = IdleRun]
  /\ embeddings' = CommittedAfterRollback(run)
  /\ interrupted' = IF run.chunks # <<>> THEN interrupted \cup {run.file}
                    ELSE interrupted
  /\ batch' = BatchAfterFailure(run.file)
  /\ documents' = DocumentsAfterRollback(run)
  /\ last' = Returned(run, Some(error))
  /\ UNCHANGED <<config, runner, pending, excel, vs_documents>>

\* Mutant of ExistingDocument: the lookup by filepath finds nothing.
ExistingDocument_none(file_path) == {}

\* _create_document's query: the Documents with that filepath.
ExistingDocument(file_path) ==
  {d \in 1..Len(documents) : documents[d].filepath = file_path}

\* Mutant of AlreadyProcessed: the processed flag is not looked at.
AlreadyProcessed_ignored(file_path) == FALSE

\* `if doc.processed: return` on the Document _create_document returned.
AlreadyProcessed(file_path) ==
  \E d \in ExistingDocument(file_path) : documents[d].processed

\* The head of process_pdf / process_markdown: open a session, get or
\* create the Document (flushed, not committed), return if it is processed.
StartRun(w, file_path) ==
  IF AlreadyProcessed(file_path)
  THEN /\ last' = [NoCall EXCEPT !.op = ProcessOp(file_path),
                                 !.message = file_path,
                                 !.outcome = "returned"]
       /\ UNCHANGED runs
  ELSE /\ runs' = [runs EXCEPT ![w] =
            [IdleRun EXCEPT
               !.pc = "created", !.file = file_path,
               !.new_document = (ExistingDocument(file_path) = {}),
               !.document_id =
                  IF ExistingDocument(file_path) = {}
                  THEN NextId(documents)
                  ELSE documents[CHOOSE d \in ExistingDocument(file_path) :
                                   TRUE].id]]
       /\ last' = [NoCall EXCEPT !.op = "ingesting", !.message = file_path]

\* Mutant of UniqueViolation: documents.filepath has no unique index.
UniqueViolation_none(file_path) == FALSE

\* The unique index on documents.filepath refuses a second committed row.
UniqueViolation(file_path) ==
  \E d \in 1..Len(documents) : documents[d].filepath = file_path

\* Another transaction holds an uncommitted row with that filepath: the
\* INSERT waits for it to commit or roll back.
InsertBlocked(w, file_path) ==
  \E v \in Workers \ {w} :
    /\ runs[v].pc \in {"created", "chunking", "marked"}
    /\ runs[v].new_document
    /\ runs[v].file = file_path

\* process_pdf / process_markdown next to another thread's call for the
\* same path, up to _create_document's query: it sees committed rows only.
race_lookup(w, file_path) ==
  /\ runs[w].pc = "idle"
  /\ batch.pc = "idle"
  /\ \A v \in Workers \ {w} : runs[v].pc # "idle" => runs[v].file = file_path
  /\ IF AlreadyProcessed(file_path)
       THEN /\ last' = [NoCall EXCEPT !.op = ProcessOp(file_path),
                                      !.message = file_path,
                                      !.outcome = "returned"]
            /\ UNCHANGED runs
       ELSE /\ runs' = [runs EXCEPT ![w] =
                 [IdleRun EXCEPT
                    !.pc = "inserting", !.file = file_path,
                    !.new_document = (ExistingDocument(file_path) = {}),
                    !.document_id =
                       IF ExistingDocument(file_path) = {}
                       THEN 0
                       ELSE documents[CHOOSE d \in
                              ExistingDocument(file_path) : TRUE].id]]
            /\ last' = [NoCall EXCEPT !.op = "ingesting",
                                      !.message = file_path]
  /\ UNCHANGED <<config, runner, pending, excel, batch, interrupted, documents,
                 embeddings, vs_documents>>

\* session.add(doc); session.flush() of _create_document: the INSERT waits
\* while another transaction holds the path, and fails on a committed one.
race_insert(w) ==
  /\ runs[w].pc = "inserting"
  /\ LET run == runs[w]
     IN  IF ~run.new_document
         THEN /\ runs' = [runs EXCEPT ![w].pc = "created"]
              /\ UNCHANGED <<config, runner, pending, excel, batch, interrupted,
                             documents, embeddings, vs_documents, last>>
         ELSE IF UniqueViolation(run.file)
         THEN Abort(w, [run EXCEPT !.new_document = FALSE],
                    "IntegrityError")
         ELSE /\ ~InsertBlocked(w, run.file)
              /\ runs' = [runs EXCEPT ![w] =
                    [run EXCEPT !.pc = "created",
                                !.document_id = NextId(documents)]]
              /\ UNCHANGED <<config, runner, pending, excel, batch, interrupted,
                             documents, embeddings, vs_documents, last>>

\* A direct call of process_pdf(path) or process_markdown(path).
process_begin(w, file_path) ==
  /\ runs[w].pc = "idle"
  /\ batch.pc = "idle"
  /\ StartRun(w, file_path)
  /\ UNCHANGED <<config, runner, pending, excel, batch, interrupted, documents,
                 embeddings, vs_documents>>

\* Temporary files of the HTTP endpoint and the URLs they came from.
TempPaths == {"tmp1.pdf", "tmp2.pdf"}
Urls == {"http://example.com/test.pdf"}

\* process_pdf(pdf_path, url=...), as api.process_pdf_url and the
\* integration tests call it: process_pdf takes no `url`, so the call
\* raises TypeError before its body runs.
process_pdf_url(w, pdf_path, url) ==
  /\ runs[w].pc = "idle"
  /\ batch.pc = "idle"
  /\ last' = [NoCall EXCEPT !.op = "process_pdf", !.message = pdf_path,
                            !.url = Some(url), !.outcome = "TypeError",
                            !.error = Some("TypeError")]
  /\ UNCHANGED <<config, sessions, documents, embeddings, vs_documents>>

\* _extract_pdf_text / _extract_markdown_text and the split into nodes.
extract_text(w, ok) ==
  /\ runs[w].pc = "created"
  /\ LET run == [runs[w] EXCEPT !.extractions = @ + 1]
     IN  IF ok
         THEN /\ runs' = [runs EXCEPT ![w] =
                   [run EXCEPT !.pc = "chunking",
                               !.nodes = SplitNodes(run.file)]]
              /\ UNCHANGED <<config, runner, pending, excel, batch, interrupted,
                             documents, embeddings, vs_documents, last>>
         ELSE Abort(w, run, "extraction")

\* Mutant of AllChunksInserted: the loop over the nodes ends after one.
AllChunksInserted_early(run) == Len(run.chunks) >= 1

\* The `for i, node in enumerate(nodes)` loop has run to its end.
AllChunksInserted(run) == Len(run.chunks) = Len(run.nodes)

\* One turn of the loop in _process_text: embed the node, add the Embedding,
\* flush.  The embedding call or the flush may raise.
process_chunk(w, result) ==
  /\ runs[w].pc = "chunking"
  /\ ~AllChunksInserted(runs[w])
  /\ LET run == [runs[w] EXCEPT !.embedding_calls = @ + 1]
         row == ChunkRows(run.file, run.document_id,
                          NextId(embeddings))[Len(run.chunks) + 1]
     IN  IF result = "ok"
         THEN /\ runs' = [runs EXCEPT ![w] =
                   [run EXCEPT !.chunks = Append(@, row)]]
              /\ UNCHANGED <<config, runner, pending, excel, batch, interrupted,
                             documents, embeddings, vs_documents, last>>
         ELSE Abort(w, run, result)

\* _mark_document_processed, after _process_text returned.
mark_processed(w) ==
  /\ runs[w].pc = "chunking"
  /\ AllChunksInserted(runs[w])
  /\ runs' = [runs EXCEPT ![w].pc = "marked"]
  /\ UNCHANGED <<config, runner, pending, excel, batch, interrupted, documents,
                 embeddings, vs_documents, last>>

\* session.commit(): the Document, processed, and its chunks become visible
\* together; a commit the database refuses is handled like any exception.
commit(w, ok) ==
  /\ runs[w].pc = "marked"
  /\ LET run == runs[w]
     IN  IF ok
         THEN /\ documents' =
                   IF run.new_document
                   THEN Append(documents,
                          [id |-> run.document_id, filepath |-> run.file,
                           url |-> None, processed |-> TRUE])
                   ELSE [d \in 1..Len(documents) |->
                           IF documents[d].id = run.document_id
                           THEN [documents[d] EXCEPT !.processed = TRUE]
                           ELSE documents[d]]
              /\ embeddings' = embeddings \o run.chunks
              /\ runs' = [runs EXCEPT ![w] = IdleRun]
              /\ last' = Returned(run, None)
              /\ UNCHANGED <<config, runner, pending, excel, batch, interrupted,
                             vs_documents>>
         ELSE Abort(w, run, "store")

\* The process is killed inside an ingestion call: the connection drops,
\* the open transaction is rolled back, the batch loop is gone.
kill(w) ==
  /\ runs[w].pc # "idle"
  /\ LET run == runs[w]
     IN  /\ runs' = [v \in Workers |-> IdleRun]
         /\ batch' = IdleBatch
         /\ embeddings' = CommittedAfterRollback(run)
         /\ documents' = DocumentsAfterRollback(run)
         /\ interrupted' = IF run.chunks # <<>>
                           THEN interrupted \cup {run.file} ELSE interrupted
         /\ last' = [NoCall EXCEPT !.op = "killed", !.message = run.file,
                                   !.outcome = "killed",
                                   !.extractions = run.extractions,
                                   !.embedding_calls = run.embedding_calls,
                                   !.error = Some("killed")]
  /\ UNCHANGED <<config, runner, pending, excel, vs_documents>>

\* process_all_documents up to its loops: return if docs_dir is missing.
\* The caller says what becomes of the mail runner.
process_all_documents_begin(w, dir_exists) ==
  /\ batch.pc = "idle"
  /\ runs[w].pc = "idle"
  /\ IF dir_exists
       THEN /\ batch' = [IdleBatch EXCEPT !.pc = "running",
                                          !.queue = DirListing]
            /\ last' = [NoCall EXCEPT !.op = "ingesting_all"]
       ELSE /\ UNCHANGED batch
            /\ last' = [NoCall EXCEPT !.op = "process_all_documents",
                                      !.outcome = "no_directory"]
  /\ UNCHANGED <<config, pending, excel, runs, interrupted, documents,
                 embeddings, vs_documents>>

\* One turn of a loop of process_all_documents: _should_process_file, then
\* skip or call process_pdf / process_markdown; an exception raised by
\* _should_process_file is caught by the loop's own handler.
next_file(w, check_ok) ==
  /\ batch.pc = "running"
  /\ runs[w].pc = "idle"
  /\ batch.queue # <<>>
  /\ LET file_path == Head(batch.queue)
         rest == [batch EXCEPT !.queue = Tail(@)]
     IN  IF ~check_ok
         THEN /\ batch' = [rest EXCEPT !.attempted = @ \cup {file_path},
                                       !.failed = @ \cup {file_path}]
              /\ last' = [NoCall EXCEPT !.op = "should_process_file",
                                        !.message = file_path,
                                        !.outcome = "returned",
                                        !.error = Some("store")]
              /\ UNCHANGED runs
         ELSE IF ~ShouldProcessFile(file_path)
         THEN /\ batch' = [rest EXCEPT !.skipped = @ \cup {file_path}]
              /\ last' = [NoCall EXCEPT !.op = "should_process_file",
                                        !.message = file_path,
                                        !.outcome = "skipped"]
              /\ UNCHANGED runs
         ELSE /\ batch' = [rest EXCEPT !.attempted = @ \cup {file_path}]
              /\ StartRun(w, file_path)
  /\ UNCHANGED <<config, runner, pending, excel, interrupted, documents,
                 embeddings, vs_documents>>

\* Both loops are through: process_all_documents returns.
process_all_documents_end(w) ==
  /\ batch.pc = "running"
  /\ runs[w].pc = "idle"
  /\ batch.queue = <<>>
  /\ batch' = IdleBatch
  /\ last' = [NoCall EXCEPT !.op = "process_all_documents",
                            !.outcome = "returned",
                            !.attempted = batch.attempted,
                            !.skipped = batch.skipped,
                            !.error = IF batch.failed = {} THEN None
                                      ELSE Some(batch.failed)]
  /\ UNCHANGED <<config, pending, excel, runs, interrupted, documents,
                 embeddings, vs_documents>>

\* ---------------------------------------------------------------- RAGService

\* The one literal send_message returns when it declines.
DeclineText ==
  "I apologize, but I don't have enough relevant information to provide a reliable answer to your question. Could you please rephrase your question or provide more context?"

\* Texts the completion provider may generate.
Completions == {"Test response"}
CompletionError == "CompletionError"

MaxOf(S) == CHOOSE x \in S : \A y \in S : y <= x

\* Mutant: trusts the first match to be the best one.
MaxSimilarity_first(matches) ==
  IF matches = <<>> THEN None ELSE Some(matches[1].similarity)

\* max(match.similarity for match in matches) if matches else None
MaxSimilarity(matches) ==
  IF matches = <<>> THEN None
  ELSE Some(MaxOf({matches[i].similarity : i \in 1..Len(matches)}))

\* Mutant: an empty match list is not treated as a decline.
Declines_ignores_none(max_similarity) ==
  max_similarity # None /\ max_similarity[1] < MIN_SIMILARITY_TO_ANSWER

\* Mutant: the floor test excludes the boundary value.
Declines_exclusive(max_similarity) ==
  max_similarity = None \/ max_similarity[1] <= MIN_SIMILARITY_TO_ANSWER

\* if max_similarity is None or max_similarity < MIN_SIMILARITY_TO_ANSWER
Declines(max_similarity) ==
  max_similarity = None \/ max_similarity[1] < MIN_SIMILARITY_TO_ANSWER

\* Mutant: the context filter excludes the boundary value.
IsRelevant_exclusive(match) == match.similarity > similarity_threshold

\* [match for match in matches if match.similarity >= similarity_threshold]
IsRelevant(match) == match.similarity >= similarity_threshold
RelevantDocs(matches) == SelectSeq(matches, IsRelevant)

\* "\n\n".join(match.text for match in relevant_docs), as a token sequence
RECURSIVE JoinTexts(_)
JoinTexts(docs) ==
  IF docs = <<>> THEN <<>>
  ELSE IF Len(docs) = 1 THEN <<docs[1].text>>
  ELSE <<docs[1].text, "\n\n">> \o JoinTexts(Tail(docs))

\* Mutant: the context block is emitted even when nothing is relevant.
BuildPrompt_always_context(relevant_docs, message) ==
  <<"Please provide a clear and concise response.", "\n\n",
    "Use the following context to help answer the question.", "\n\n",
    "Context:\n">> \o JoinTexts(relevant_docs)
    \o <<"\n\n", "Question: ", message>>

\* The prompt as the sequence of its parts.
BuildPrompt(relevant_docs, message) ==
  IF relevant_docs = <<>>
    THEN <<"Please provide a clear and concise response.", "\n\n",
           "Question: ", message>>
    ELSE <<"Please provide a clear and concise response.", "\n\n",
           "Use the following context to help answer the question.", "\n\n",
           "Context:\n">> \o JoinTexts(relevant_docs)
           \o <<"\n\n", "Question: ", message>>

\* RAGResponse as rag_service.py declares it: text and max_similarity only.
RAGResponse(text, max_similarity) ==
  [text |-> text, max_similarity |-> max_similarity]

\* Mutant: a separate wording when there were no candidates at all.
DeclineResponse_distinct(max_similarity) ==
  RAGResponse(IF max_similarity = None
                THEN "I could not find any relevant information."
                ELSE DeclineText,
              max_similarity)

\* return RAGResponse(text="I apologize, ...", max_similarity=max_similarity)
DeclineResponse(max_similarity) == RAGResponse(DeclineText, max_similarity)

\* Mutant of SendMessageResult: a failed completion call is answered with
\* the decline text.
SendMessageResult_degrades(matches, message, completion) ==
  LET max_similarity == MaxSimilarity(matches)
      call == [NoCall EXCEPT !.op = "send_message", !.message = message,
                             !.limit = DefaultLimit, !.matches = matches]
  IN  IF Declines(max_similarity)
        THEN [call EXCEPT !.outcome = "returned",
                          !.response = DeclineResponse(max_similarity)]
        ELSE LET prompt == BuildPrompt(RelevantDocs(matches), message)
             IN  IF completion = CompletionError
                   THEN [call EXCEPT !.outcome = "returned",
                                     !.failure = "completion",
                                     !.prompt = prompt,
                                     !.completion_calls = 1,
                                     !.response =
                                        DeclineResponse(max_similarity)]
                   ELSE [call EXCEPT !.outcome = "returned",
                                     !.prompt = prompt,
                                     !.completion_calls = 1,
                                     !.response =
                                        RAGResponse(completion, max_similarity)]

\* send_message after the store has answered: decline, or build the prompt
\* and call litellm.completion once; `completion` is what that call does.
SendMessageResult(matches, message, completion) ==
  LET max_similarity == MaxSimilarity(matches)
      call == [NoCall EXCEPT !.op = "send_message", !.message = message,
                             !.limit = DefaultLimit, !.matches = matches]
  IN  IF Declines(max_similarity)
        THEN [call EXCEPT !.outcome = "returned",
                          !.response = DeclineResponse(max_similarity)]
        ELSE LET prompt == BuildPrompt(RelevantDocs(matches), message)
             IN  IF completion = CompletionError
                   THEN [call EXCEPT !.outcome = CompletionError,
                                     !.failure = "completion",
                                     !.prompt = prompt,
                                     !.completion_calls = 1]
                   ELSE [call EXCEPT !.outcome = "returned",
                                     !.prompt = prompt,
                                     !.completion_calls = 1,
                                     !.response =
                                        RAGResponse(completion, max_similarity)]

\* RAGService.send_message(message)
send_message(message, embed_ok, completion) ==
  /\ IF embed_ok
       THEN \E matches \in QueryResults(EmbeddingOf(message), DefaultLimit) :
              last' = SendMessageResult(matches, message, completion)
       ELSE last' = [NoCall EXCEPT !.op = "send_message",
                                   !.message = message,
                                   !.limit = DefaultLimit,
                                   !.failure = "embedding",
                                   !.outcome = "EmbeddingsError"]
  /\ UNCHANGED <<config, sessions, documents, embeddings, vs_documents>>

\* -------------------------------------------------------------- ExcelHandler

\* Rows of a sheet read by pd.read_excel: a cell is NaN (None) or a value.
Rows ==
  {<<None, None>>,
   <<Some("capital of france?"), None>>,
   <<Some("capital"), Some("of france?")>>}

\* DataFrames of up to MaxTableRows rows.
Tables == UNION {[1..n -> Rows] : n \in 0..MaxTableRows}

\* "\n".join over a list of strings.
RECURSIVE JoinLines(_)
JoinLines(values) ==
  IF values = <<>> THEN ""
  ELSE IF Len(values) = 1 THEN values[1]
  ELSE values[1] \o "\n" \o JoinLines(Tail(values))

\* "\n".join(str(val) for val in row if pd.notna(val))
ConcatenatedQuestion(row) ==
  LET present == SelectSeq(row, LAMBDA val : val # None)
  IN  JoinLines([i \in 1..Len(present) |-> present[i][1]])

\* _create_concatenated_questions: one question per row, in row order.
CreateConcatenatedQuestions(df) ==
  [i \in 1..Len(df) |-> ConcatenatedQuestion(df[i])]

NotEnoughInformation == "Not enough information to answer this question."

\* Mutant of ShowsAnswer: a score at the threshold does not show the answer.
ShowsAnswer_exclusive(score) ==
  score # None /\ score[1] > MIN_SIMILARITY_TO_ANSWER

\* `answer if score is not None and score >= MIN_SIMILARITY_TO_ANSWER`
ShowsAnswer(score) == score # None /\ score[1] >= MIN_SIMILARITY_TO_ANSWER

\* The Answers column.
DisplayedAnswers(results) ==
  [i \in 1..Len(results) |->
     IF ShowsAnswer(results[i].max_similarity) THEN results[i].text
     ELSE NotEnoughInformation]

\* f"{s * 100:.1f}%": the similarity as tenths of a percent, or "N/A".
FormatScore(score) ==
  IF score = None THEN "N/A"
  ELSE LET tenths == (2000 * score[1] + MaxSim) \div (2 * MaxSim)
       IN  ToString(tenths \div 10) \o "." \o ToString(tenths % 10) \o "%"

\* The Similarity Score column.
DisplayedScores(results) ==
  [i \in 1..Len(results) |-> FormatScore(results[i].max_similarity)]

\* What _process_questions is observed to have returned.
ProcessQuestionsReturned(df, calls, message) ==
  [NoCall EXCEPT !.op = "process_questions", !.outcome = "returned",
                 !.table = df, !.calls = calls,
                 !.response = RAGResponse(message, None)]

\* _process_questions up to _get_answers: an empty DataFrame is refused.
process_questions_begin(df) ==
  /\ excel.pc = "idle"
  /\ IF df = <<>>
       THEN /\ last' = ProcessQuestionsReturned(df, <<>>,
                                                "Excel file is empty")
            /\ UNCHANGED excel
       ELSE /\ excel' = [IdleExcel EXCEPT
                           !.pc = "answering", !.df = df,
                           !.questions = CreateConcatenatedQuestions(df)]
            /\ last' = [NoCall EXCEPT !.op = "answering", !.table = df]
  /\ UNCHANGED <<config, runner, pending, runs, batch, interrupted, documents,
                 embeddings, vs_documents>>

\* The exception of a send_message call leaves _get_answers and is caught
\* by _process_questions: no table, an error message.
QuestionsFailed(calls, error) ==
  /\ excel' = IdleExcel
  /\ last' = [ProcessQuestionsReturned(excel.df, calls,
                                       "Error processing questions")
                EXCEPT !.error = Some(error)]

\* One element of the list _get_answers builds: send_message(q) if q, else
\* RAGResponse("", None).
get_answer(embed_ok, completion) ==
  /\ excel.pc = "answering"
  /\ Len(excel.results) < Len(excel.questions)
  /\ LET q == excel.questions[Len(excel.results) + 1]
         calls == Append(excel.calls, q)
     IN  IF q = ""
         THEN /\ excel' = [excel EXCEPT
                             !.results = Append(@, RAGResponse("", None))]
              /\ UNCHANGED last
         ELSE IF ~embed_ok
         THEN QuestionsFailed(calls, "EmbeddingsError")
         ELSE \E matches \in QueryResults(EmbeddingOf(q), DefaultLimit) :
                LET result == SendMessageResult(matches, q, completion)
                IN  IF result.outcome = "returned"
                    THEN /\ excel' = [excel EXCEPT
                                        !.results = Append(@, result.response),
                                        !.calls = calls]
                         /\ UNCHANGED last
                    ELSE QuestionsFailed(calls, result.outcome)
  /\ UNCHANGED <<config, runner, pending, runs, batch, interrupted, documents,
                 embeddings, vs_documents>>

\* _process_questions after _get_answers: the two columns are added.
process_questions_end ==
  /\ excel.pc = "answering"
  /\ Len(excel.results) = Len(excel.questions)
  /\ last' = [ProcessQuestionsReturned(excel.df, excel.calls,
                                       "Processed questions successfully")
                EXCEPT !.answers = DisplayedAnswers(excel.results),
                       !.scores = DisplayedScores(excel.results),
                       !.results = excel.results]
  /\ excel' = IdleExcel
  /\ UNCHANGED <<config, runner, pending, runs, batch, interrupted, documents,
                 embeddings, vs_documents>>

\* --------------------------------------------------------- EmailAgentRunner

\* Most application/* parts an email of the model carries.
MaxAttachments == 2

\* Filenames of parts, as stem and extension; a part may have none.
ExcelNames == {<<"q", ".xlsx">>, <<"r", ".xls">>}
OtherNames == {<<"notes", ".txt">>}

FileName(name) == name[1] \o name[2]

\* filename.endswith((".xlsx", ".xls"))
IsExcelFile(name) == name[2] \in {".xlsx", ".xls"}

\* What pd.read_excel makes of a payload: a DataFrame, or an exception
\* with this message.
ReadError == "Excel file format cannot be determined"
AttachmentTables == {<<>>, <<<<Some("capital of france?"), None>>>>}
Unreadable == [readable |-> FALSE, df |-> <<>>]
Payloads ==
  {Unreadable} \cup {[readable |-> TRUE, df |-> t] : t \in AttachmentTables}

\* The application/* parts msg.walk() may yield.
Parts ==
  {[filename |-> Some(n), payload |-> c] :
     n \in ExcelNames, c \in Payloads}
  \cup {[filename |-> Some(n), payload |-> Unreadable] : n \in OtherNames}
  \cup {[filename |-> None, payload |-> Unreadable]}

\* Bodies _extract_body may return, and body.strip() of them.
Bodies == {" ", "capital of france?"}
Strip(body) == IF body = " " THEN "" ELSE body

\* The unread emails fetch_emails may yield.
Emails ==
  {[body |-> b, parts |-> p] :
     b \in Bodies, p \in UNION {[1..n -> Parts] : n \in 0..MaxAttachments}}

NoEmail == [body |-> "", parts |-> <<>>]

NoCounts ==
  [num_attachments |-> 0, num_processed_files |-> 0, num_failed_files |-> 0,
   num_skipped_files |-> 0]

\* run has not been called.
IdleRunner ==
  [pc |-> "start", consumed |-> 0, email |-> NoEmail, rag_response |-> None,
   excel_files |-> <<>>, skipped_files |-> <<>>, next |-> 1,
   results |-> <<>>, processed_files |-> <<>>, summary |-> None,
   counts |-> NoCounts, replies |-> <<>>, close_calls |-> 0,
   error |-> None]

SkipReason ==
  "Unsupported file format. Only .xlsx and .xls files are supported"

\* extract_excel_from_email: the Excel files and the skipped files among the
\* named parts, in the order of the parts; `part` is the part's position.
ExtractExcelFromEmail(msg) ==
  LET indexed == [i \in 1..Len(msg.parts) |->
                    [part |-> i, filename |-> msg.parts[i].filename,
                     payload |-> msg.parts[i].payload]]
      named == SelectSeq(indexed, LAMBDA p : p.filename # None)
      files == SelectSeq(named, LAMBDA p : IsExcelFile(p.filename[1]))
      others == SelectSeq(named, LAMBDA p : ~IsExcelFile(p.filename[1]))
  IN  [excel_files |->
         [i \in 1..Len(files) |->
            [part |-> files[i].part, excel_file |-> files[i].payload,
             filename |-> FileName(files[i].filename[1])]],
       skipped_files |->
         [i \in 1..Len(others) |->
            [part |-> others[i].part,
             filename |-> FileName(others[i].filename[1]),
             reason |-> SkipReason]]]

\* What the send_message call for one question may do.
RowOutcomes(q) ==
  IF q = ""
    THEN {[NoCall EXCEPT !.outcome = "returned",
                         !.response = RAGResponse("", None)]}
    ELSE {[NoCall EXCEPT !.outcome = "EmbeddingsError"]}
         \cup {SendMessageResult(m, q, c) :
                 m \in QueryResults(EmbeddingOf(q), DefaultLimit),
                 c \in Completions \cup {CompletionError}}

\* What _get_answers may meet, question by question.
AnswerOutcomes(questions) ==
  {f \in [1..Len(questions) -> UNION {RowOutcomes(questions[i]) :
                                        i \in 1..Len(questions)}] :
     \A i \in 1..Len(questions) : f[i] \in RowOutcomes(questions[i])}

\* _process_questions on a DataFrame, given what the calls did.
ProcessQuestions(df, outcomes) ==
  IF df = <<>>
    THEN [output |-> None, message |-> "Excel file is empty"]
  ELSE IF \E i \in 1..Len(outcomes) : outcomes[i].outcome # "returned"
    THEN [output |-> None, message |-> "Error processing questions"]
  ELSE LET results == [i \in 1..Len(outcomes) |-> outcomes[i].response]
       IN  [output |-> Some([answers |-> DisplayedAnswers(results),
                             scores |-> DisplayedScores(results)]),
            message |-> "Processed questions successfully"]

\* _process_single_excel_file: (output, message); an exception of
\* read_excel is caught and becomes the message.
ProcessSingleExcelFile(excel_file) ==
  IF ~excel_file.readable
    THEN {[output |-> None, message |-> ReadError]}
    ELSE {ProcessQuestions(excel_file.df, outcomes) :
            outcomes \in AnswerOutcomes(
                           CreateConcatenatedQuestions(excel_file.df))}

\* processed_files[filename] = output: a dict keeps one entry per key.
DictSet(dict, entry) ==
  IF \E i \in 1..Len(dict) : dict[i].filename = entry.filename
    THEN [i \in 1..Len(dict) |->
            IF dict[i].filename = entry.filename THEN entry ELSE dict[i]]
    ELSE Append(dict, entry)

\* Mutant of AfterFile: a file that cannot be processed ends the loop.
AfterFile_aborts(r, file, result) ==
  IF result.output # None
    THEN [r EXCEPT
            !.next = @ + 1,
            !.processed_files =
               DictSet(@, [filename |-> file.filename, part |-> file.part,
                           output |-> result.output[1]]),
            !.results = Append(@, "File '" \o file.filename
                                  \o "' processed successfully: "
                                  \o result.message)]
    ELSE [r EXCEPT
            !.next = Len(r.excel_files) + 1,
            !.results = Append(@, "File '" \o file.filename
                                  \o "' could not be processed: "
                                  \o result.message)]

\* One turn of the loop of process_excel_attachment.
AfterFile(r, file, result) ==
  IF result.output # None
    THEN [r EXCEPT
            !.next = @ + 1,
            !.processed_files =
               DictSet(@, [filename |-> file.filename, part |-> file.part,
                           output |-> result.output[1]]),
            !.results = Append(@, "File '" \o file.filename
                                  \o "' processed successfully: "
                                  \o result.message)]
    ELSE [r EXCEPT
            !.next = @ + 1,
            !.results = Append(@, "File '" \o file.filename
                                  \o "' could not be processed: "
                                  \o result.message)]

\* "\n".join(f"- {result}" for result in results), or the early return.
DetailedSummary(r) ==
  IF r.excel_files = <<>> /\ r.skipped_files = <<>>
    THEN "No attachments found."
    ELSE JoinLines([i \in 1..Len(r.results) |-> "- " \o r.results[i]])

\* Mutant of NumFailedFiles: the files reported as "could not be processed".
NumFailedFiles_reported(excel_files, processed_files, results) ==
  Len(SelectSeq(results, LAMBDA line :
        \E i \in 1..Len(excel_files) :
          \E m \in {"Excel file is empty", "Error processing questions",
                    ReadError} :
            line = "File '" \o excel_files[i].filename
                   \o "' could not be processed: " \o m))

\* num_failed_files = len(excel_files) - len(processed_files)
NumFailedFiles(excel_files, processed_files, results) ==
  Len(excel_files) - Len(processed_files)

\* The counts of lines 87-91, from a second extraction of the message.
FileCounts(r) ==
  LET extracted == ExtractExcelFromEmail(r.email)
  IN  [num_attachments |->
         Len(extracted.excel_files) + Len(extracted.skipped_files),
       num_processed_files |-> Len(r.processed_files),
       num_failed_files |->
         NumFailedFiles(extracted.excel_files, r.processed_files, r.results),
       num_skipped_files |-> Len(extracted.skipped_files)]

\* Keyword parameters of TemplateHandler.render_template, and the keywords
\* _process_email passes.
RenderParameters ==
  {"body_response", "num_attachments", "num_processed_files",
   "num_failed_files", "num_skipped_files", "detailed_summary"}
RenderArguments ==
  RenderParameters \cup {"similarity_score", "document_url"}

\* What lines 94-103 do: read the response's attributes, then call
\* render_template, which checks the counts; "rendered" or the exception.
RenderOutcome(rag_response, counts) ==
  IF ~({"text", "max_similarity", "document_url"} \subseteq
         DOMAIN rag_response)
    THEN "AttributeError"
  ELSE IF ~(RenderArguments \subseteq RenderParameters)
    THEN "TypeError"
  ELSE IF counts.num_processed_files + counts.num_failed_files
            + counts.num_skipped_files # counts.num_attachments
    THEN "ValueError"
  ELSE "rendered"

\* Mutant of AfterRaise: a reply goes out although the email raised.
AfterRaise_replies(r, error) ==
  [r EXCEPT !.pc = "exited", !.error = Some(error), !.close_calls = @ + 1,
            !.replies = Append(@, [email |-> r.consumed,
                                   attachments |-> r.processed_files])]

\* An exception leaves _process_email: run's `finally` closes the database
\* and the exception leaves run.
AfterRaise(r, error) ==
  [r EXCEPT !.pc = "exited", !.error = Some(error), !.close_calls = @ + 1]

\* Mutant of AfterSetupFailure: the loop starts although setup failed.
AfterSetupFailure_polls(r, error) ==
  [r EXCEPT !.pc = "polling", !.error = Some(error)]

\* `except Exception: ... return` of run: no polling, no close.
AfterSetupFailure(r, error) ==
  [r EXCEPT !.pc = "returned", !.error = Some(error)]

\* run, line 52: setup_database creates the schema and seeds an empty
\* documents table; the seed row is built with keywords Document lacks.
setup_database(db_ok) ==
  /\ runner.pc = "start"
  /\ runs["startup"].pc = "idle"
  /\ batch.pc = "idle"
  /\ runner' = IF ~db_ok THEN AfterSetupFailure(runner, "DatabaseError")
               ELSE IF documents = <<>>
               THEN AfterSetupFailure(runner, "TypeError")
               ELSE [runner EXCEPT !.pc = "setup"]
  /\ last' = [NoCall EXCEPT !.op = "setup_database"]
  /\ UNCHANGED <<config, pending, runs, batch, interrupted, excel,
                 documents, embeddings, vs_documents>>

\* run, line 54: process_all_documents is entered.
run_process_all_documents(dir_exists) ==
  /\ runner.pc = "setup"
  /\ process_all_documents_begin("startup", dir_exists)
  /\ runner' = [runner EXCEPT
                  !.pc = IF dir_exists THEN "ingesting" ELSE "polling"]

\* run, lines 59-61: process_all_documents has returned, the loop starts.
run_start_polling ==
  /\ runner.pc = "ingesting"
  /\ process_all_documents_end("startup")
  /\ runner' = [runner EXCEPT !.pc = "polling"]

\* The generator yields the next unread email to the loop of run.
fetch_emails(e) ==
  /\ runner.pc = "polling"
  /\ runner' = [IdleRunner EXCEPT
                  !.pc = "fetched", !.email = e,
                  !.consumed = runner.consumed + 1,
                  !.replies = runner.replies,
                  !.close_calls = runner.close_calls]
  /\ last' = [NoCall EXCEPT !.op = "fetch_emails"]
  /\ UNCHANGED <<config, pending, runs, batch, interrupted, excel,
                 documents, embeddings, vs_documents>>

\* _process_email, lines 77-81: the answer to the body.
answer_body(embed_ok, completion) ==
  /\ runner.pc = "fetched"
  /\ LET body == runner.email.body
     IN  IF Strip(body) = ""
         THEN runner' = [runner EXCEPT !.pc = "answered",
                                       !.rag_response =
                                          Some(RAGResponse("", None))]
         ELSE IF ~embed_ok
         THEN runner' = AfterRaise(runner, "EmbeddingsError")
         ELSE \E matches \in QueryResults(EmbeddingOf(body), DefaultLimit) :
                LET result == SendMessageResult(matches, body, completion)
                IN  runner' = IF result.outcome = "returned"
                              THEN [runner EXCEPT
                                      !.pc = "answered",
                                      !.rag_response =
                                         Some(result.response)]
                              ELSE AfterRaise(runner, result.outcome)
  /\ last' = [NoCall EXCEPT !.op = "answer_body"]
  /\ UNCHANGED <<config, pending, runs, batch, interrupted, excel,
                 documents, embeddings, vs_documents>>

\* process_excel_attachment up to its loop: the extraction and the lines
\* of the skipped files.
process_excel_attachment_begin ==
  /\ runner.pc = "answered"
  /\ LET extracted == ExtractExcelFromEmail(runner.email)
     IN  runner' = [runner EXCEPT
                      !.pc = "attachments",
                      !.excel_files = extracted.excel_files,
                      !.skipped_files = extracted.skipped_files,
                      !.results =
                         [i \in 1..Len(extracted.skipped_files) |->
                            "File '" \o extracted.skipped_files[i].filename
                            \o "' was skipped: "
                            \o extracted.skipped_files[i].reason]]
  /\ last' = [NoCall EXCEPT !.op = "process_excel_attachment"]
  /\ UNCHANGED <<config, pending, runs, batch, interrupted, excel,
                 documents, embeddings, vs_documents>>

\* One turn of the loop: _process_single_excel_file and its bookkeeping.
process_single_excel_file ==
  /\ runner.pc = "attachments"
  /\ runner.next <= Len(runner.excel_files)
  /\ LET file == runner.excel_files[runner.next]
     IN  \E result \in ProcessSingleExcelFile(file.excel_file) :
           runner' = AfterFile(runner, file, result)
  /\ last' = [NoCall EXCEPT !.op = "process_single_excel_file"]
  /\ UNCHANGED <<config, pending, runs, batch, interrupted, excel,
                 documents, embeddings, vs_documents>>

\* _process_email, lines 84-112, after the loop: the summary, the counts,
\* the template and the reply.
process_email_end ==
  /\ runner.pc = "attachments"
  /\ runner.next > Len(runner.excel_files)
  /\ LET counts == FileCounts(runner)
         email_body == RenderOutcome(runner.rag_response[1], counts)
         done == [runner EXCEPT !.summary = Some(DetailedSummary(runner)),
                                !.counts = counts]
     IN  runner' =
           IF email_body # "rendered" THEN AfterRaise(done, email_body)
           ELSE [done EXCEPT
                   !.pc = "polling",
                   !.replies = Append(@, [email |-> runner.consumed,
                                          attachments |->
                                            runner.processed_files])]
  /\ last' = [NoCall EXCEPT !.op = "process_email"]
  /\ UNCHANGED <<config, pending, runs, batch, interrupted, excel,
                 documents, embeddings, vs_documents>>

\* ------------------------------------------------------------- specification

Init ==
  /\ SIMILARITY_THRESHOLD \in Thresholds
  /\ similarity_threshold \in Thresholds
  /\ MIN_SIMILARITY_TO_ANSWER \in Thresholds
  /\ documents = <<>>
  /\ embeddings = <<>>
  /\ vs_documents = <<>>
  /\ vs_embedding_implemented = FALSE
  /\ pending = <<>>
  /\ runs = [w \in Workers |-> IdleRun]
  /\ batch = IdleBatch
  /\ interrupted = {}
  /\ excel = IdleExcel
  /\ runner = IdleRunner
  /\ last = NoCall

Metadata == {[source |-> "manual", chunk_index |-> 0, total_chunks |-> 1]}

\* Ingestion and direct inserts: the calls that fill the store.  A caller of
\* add_text names the first Document or one that does not exist.
Populate ==
  \/ \E f \in Files, ok \in BOOLEAN : process_file(f, ok)
  \/ \E t \in Texts, d \in {1, Len(documents) + 1}, m \in Metadata,
        ok \in BOOLEAN, dim \in ProviderDims : add_text(t, d, m, ok, dim)

\* The answer engine over a store being filled.
Next ==
  \/ Populate
  \/ \E q \in Messages, ok \in BOOLEAN,
        c \in Completions \cup {CompletionError} : send_message(q, ok, c)

Spec == Init /\ [][Next]_vars

\* Direct similarity queries over a store being filled.
NextDAO ==
  \/ Populate
  \/ \E q \in Messages, l \in 1..MaxLimit, ok \in BOOLEAN :
        query_embeddings(q, l, ok)

SpecDAO == Init /\ [][NextDAO]_vars

\* Ingestion of the files that is not made to fail.
Ingest == \E f \in Files : process_file(f, TRUE)

\* The store under inserts and deletes that commit by themselves.
NextStore ==
  \/ Ingest
  \/ \E t \in Texts, m \in Metadata : add_text(t, 1, m, TRUE, VectorDim)
  \/ \E t \in Texts : delete_embedding(t)

\* The thresholds play no part in a write: one configuration.
InitStore ==
  /\ Init
  /\ SIMILARITY_THRESHOLD = 1
  /\ similarity_threshold = 1
  /\ MIN_SIMILARITY_TO_ANSWER = 1

SpecStore == InitStore /\ [][NextStore]_vars

\* add_text with and without a caller's session, the caller committing.
NextSession ==
  \/ Ingest
  \/ \E t \in Texts, d \in {1, Len(documents) + 1}, m \in Metadata,
        ok \in BOOLEAN, dim \in ProviderDims : add_text(t, d, m, ok, dim)
  \/ \E t \in Texts, d \in {1, Len(documents) + 1}, m \in Metadata,
        ok \in BOOLEAN, dim \in ProviderDims :
        add_text_session(t, d, m, ok, dim)
  \/ session_commit

SpecSession == InitStore /\ [][NextSession]_vars

\* Spreadsheets answered over a store being filled by ingestion.
NextExcel ==
  \/ excel.pc = "idle" /\ Ingest
  \/ \E df \in Tables : process_questions_begin(df)
  \/ \E ok \in BOOLEAN, c \in Completions \cup {CompletionError} :
        get_answer(ok, c)
  \/ process_questions_end

SpecExcel == Init /\ [][NextExcel]_vars

\* What can go wrong in one turn of the chunk loop.
ChunkResults == {"ok", "embedding", "store"}

\* Ingestion as the application runs it, one call at a time: direct calls
\* and the directory batch, each call step by step, with failures and kills
\* in between.
NextIngest ==
  \E w \in {"startup"} :
    \/ \E f \in Files : process_begin(w, f)
    \/ \E ok \in BOOLEAN : extract_text(w, ok)
    \/ \E r \in ChunkResults : process_chunk(w, r)
    \/ mark_processed(w)
    \/ \E ok \in BOOLEAN : commit(w, ok)
    \/ kill(w)
    \/ /\ \E e \in BOOLEAN : process_all_documents_begin(w, e)
       /\ UNCHANGED runner
    \/ \E ok \in BOOLEAN : next_file(w, ok)
    \/ /\ process_all_documents_end(w)
       /\ UNCHANGED runner
    \/ \E f \in TempPaths, u \in Urls : process_pdf_url(w, f, u)

SpecIngest == InitStore /\ [][NextIngest]_vars

\* Two threads ingesting the same path at once, each in its own
\* transaction on the shared database.
NextRace ==
  \E w \in Workers :
    \/ \E f \in Files : race_lookup(w, f)
    \/ race_insert(w)
    \/ \E ok \in BOOLEAN : extract_text(w, ok)
    \/ \E r \in ChunkResults : process_chunk(w, r)
    \/ mark_processed(w)
    \/ \E ok \in BOOLEAN : commit(w, ok)

SpecRace == InitStore /\ [][NextRace]_vars

\* The mail runner over a store filled before it starts: setup, the
\* startup ingestion, then one email after the other.
NextMail ==
  \/ runner.pc = "start" /\ Ingest
  \/ \E ok \in BOOLEAN : setup_database(ok)
  \/ \E e \in BOOLEAN : run_process_all_documents(e)
  \/ runner.pc = "ingesting" /\ \E ok \in BOOLEAN : next_file("startup", ok)
  \/ runner.pc = "ingesting"
       /\ \E ok \in BOOLEAN : extract_text("startup", ok)
  \/ runner.pc = "ingesting"
       /\ \E r \in ChunkResults : process_chunk("startup", r)
  \/ runner.pc = "ingesting" /\ mark_processed("startup")
  \/ runner.pc = "ingesting" /\ \E ok \in BOOLEAN : commit("startup", ok)
  \/ run_start_polling
  \/ \E e \in Emails : fetch_emails(e)
  \/ \E ok \in BOOLEAN, c \in Completions \cup {CompletionError} :
        answer_body(ok, c)
  \/ process_excel_attachment_begin
  \/ process_single_excel_file
  \/ process_email_end

SpecMail == InitStore /\ [][NextMail]_vars

\* --------------------------------------------------- VectorStore (raw SQL)

\* SELECT ... WHERE 1 - (embedding <=> %s) > %s
VsQualifyingRows(query_embedding, threshold) ==
  {i \in 1..Len(vs_documents) :
     Similarity(vs_documents[i].embedding, query_embedding) > threshold}

VsRow(i, query_embedding) ==
  [id |-> vs_documents[i].id, text |-> vs_documents[i].text,
   metadata |-> vs_documents[i].metadata,
   similarity |-> Similarity(vs_documents[i].embedding, query_embedding)]

\* ... ORDER BY similarity DESC LIMIT %s: the top_k best qualifying rows,
\* best first; rows of equal similarity come in any order.
VsQueryResults(query_embedding, threshold, top_k) ==
  LET rows == VsQualifyingRows(query_embedding, threshold)
      n == Min2(top_k, Cardinality(rows))
      sim(i) == Similarity(vs_documents[i].embedding, query_embedding)
      orders == {f \in [1..n -> rows] :
                   /\ \A a, b \in 1..n : a # b => f[a] # f[b]
                   /\ \A a, b \in 1..n : a < b => sim(f[a]) >= sim(f[b])
                   /\ \A a \in 1..n, r \in rows :
                        (\A b \in 1..n : f[b] # r) => sim(r) <= sim(f[a])}
  IN  {[k \in 1..n |-> VsRow(f[k], query_embedding)] : f \in orders}

\* VectorStore.add_text: embed, INSERT ... RETURNING id.
vs_add_text(text, metadata) ==
  /\ Len(vs_documents) < MaxRows
  /\ IF vs_embedding_implemented
       THEN /\ vs_documents' = Append(vs_documents,
                 [id |-> Len(vs_documents) + 1, text |-> text,
                  embedding |-> EmbeddingOf(text), metadata |-> metadata])
            /\ last' = [NoCall EXCEPT !.op = "vs_add_text", !.message = text,
                                      !.outcome = "returned"]
       ELSE /\ UNCHANGED vs_documents
            /\ last' = [NoCall EXCEPT !.op = "vs_add_text", !.message = text,
                                      !.outcome = "NotImplementedError"]
  /\ UNCHANGED <<config, sessions, documents, embeddings>>

\* VectorStore.query_embeddings(query, similarity_threshold, top_k)
vs_query_embeddings(query, threshold, top_k) ==
  /\ IF vs_embedding_implemented
       THEN \E result \in VsQueryResults(EmbeddingOf(query), threshold, top_k) :
              last' = [NoCall EXCEPT !.op = "vs_query_embeddings",
                                     !.message = query, !.limit = top_k,
                                     !.threshold = threshold,
                                     !.outcome = "returned",
                                     !.matches = result]
       ELSE last' = [NoCall EXCEPT !.op = "vs_query_embeddings",
                                   !.message = query, !.limit = top_k,
                                   !.threshold = threshold,
                                   !.outcome = "NotImplementedError"]
  /\ UNCHANGED <<config, sessions, documents, embeddings, vs_documents>>

\* The legacy store on its own: a deployment either supplies
\* _generate_embedding or leaves the placeholder that raises.
InitVS ==
  /\ SIMILARITY_THRESHOLD = 1
  /\ similarity_threshold = 1
  /\ MIN_SIMILARITY_TO_ANSWER = 1
  /\ documents = <<>>
  /\ embeddings = <<>>
  /\ vs_documents = <<>>
  /\ vs_embedding_implemented \in BOOLEAN
  /\ pending = <<>>
  /\ runs = [w \in Workers |-> IdleRun]
  /\ batch = IdleBatch
  /\ interrupted = {}
  /\ excel = IdleExcel
  /\ runner = IdleRunner
  /\ last = NoCall

NextVS ==
  \/ \E t \in Texts, m \in Metadata : vs_add_text(t, m)
  \/ \E q \in Messages, th \in Thresholds, k \in 1..MaxLimit :
        vs_query_embeddings(q, th, k)

SpecVS == InitVS /\ [][NextVS]_vars

\* ------------------------------------------------------------------- claims

\* send_message ran and the store handed back a match list.
StoreAnswered == last.op = "send_message" /\ last.outcome # "EmbeddingsError"

MatchSims == {last.matches[i].similarity : i \in 1..Len(last.matches)}

\* m is the highest similarity among the matches of the last call.
IsBest(m) == m \in MatchSims /\ \A x \in MatchSims : x <= m

DeclinedWith(max_similarity) ==
  /\ last.outcome = "returned"
  /\ last.response.text = DeclineText
  /\ last.response.max_similarity = max_similarity
  /\ last.completion_calls = 0
  /\ last.prompt = <<>>

NoCandidates == StoreAnswered /\ last.matches = <<>>

BelowFloor ==
  /\ StoreAnswered
  /\ last.matches # <<>>
  /\ \A x \in MatchSims : x < MIN_SIMILARITY_TO_ANSWER

\* C1: when the vector store returns zero matches, send_message returns the
\* fixed decline text with max_similarity absent and never calls the
\* completion provider.
C1_NoMatchesDecline == NoCandidates => DeclinedWith(None)

C1_Witness == NoCandidates /\ embeddings # <<>> /\ last.outcome = "returned"

\* C2: when matches exist and the highest similarity is strictly below
\* MIN_SIMILARITY_TO_ANSWER, send_message returns the decline text, reports
\* the maximum similarity over all returned matches and never calls the
\* completion provider.
C2_BelowFloorDecline ==
  BelowFloor => \E m \in MatchSims : IsBest(m) /\ DeclinedWith(Some(m))

C2_Witness ==
  /\ BelowFloor
  /\ Len(last.matches) >= 2
  /\ last.matches[1].similarity < last.matches[2].similarity
  /\ last.outcome = "returned"

\* C3 (as stated): the text of the below-floor decline differs from the text
\* of the no-candidates decline.
C3_DistinctWording_Original ==
  BelowFloor => last.response.text # DeclineResponse(None).text

\* C3 (amended): both declines carry the same text; they differ only in
\* max_similarity, present below the floor and absent without candidates.
C3_SameWording ==
  /\ BelowFloor => /\ last.response.text = DeclineResponse(None).text
                   /\ last.response.max_similarity # None
  /\ NoCandidates => /\ last.response.text = DeclineResponse(Some(0)).text
                     /\ last.response.max_similarity = None

C3_Witness ==
  BelowFloor /\ last.outcome = "returned" /\ Len(last.matches) = 1

\* C4: the floor is inclusive: a best similarity exactly equal to
\* MIN_SIMILARITY_TO_ANSWER is not declined and the completion provider is
\* called exactly once; any best similarity strictly below it is declined.
C4_FloorInclusive ==
  StoreAnswered /\ last.matches # <<>> =>
    /\ IsBest(MIN_SIMILARITY_TO_ANSWER) =>
         /\ last.completion_calls = 1
         /\ last.outcome = "returned" => last.response.text \in Completions
    /\ (\A x \in MatchSims : x < MIN_SIMILARITY_TO_ANSWER) =>
         /\ last.completion_calls = 0
         /\ last.outcome = "returned"
         /\ last.response.text = DeclineText

C4_Witness ==
  /\ StoreAnswered
  /\ last.matches # <<>>
  /\ IsBest(MIN_SIMILARITY_TO_ANSWER)
  /\ last.completion_calls = 1
  /\ last.outcome = "returned"

\* The store's best match cleared the floor but nothing reaches the
\* service's similarity_threshold.
FallbackCase ==
  /\ StoreAnswered
  /\ \E x \in MatchSims : x >= MIN_SIMILARITY_TO_ANSWER
  /\ \A x \in MatchSims : x < similarity_threshold

PromptParts == {last.prompt[i] : i \in 1..Len(last.prompt)}

C6_NoRelevantDocsDecline ==
  (/\ StoreAnswered
   /\ last.matches # <<>>
   /\ \A x \in MatchSims : x < similarity_threshold)
  => \E m \in MatchSims : IsBest(m) /\ DeclinedWith(Some(m))

\* Indices of the matches that belong in the context block.
ContextIndices ==
  {i \in 1..Len(last.matches) :
     last.matches[i].similarity >= similarity_threshold}

GroundedCase ==
  /\ StoreAnswered
  /\ ContextIndices # {}
  /\ \E x \in MatchSims : x >= MIN_SIMILARITY_TO_ANSWER

\* The parts of a grounded prompt between "Context:\n" and the question.
ContextBlock == SubSeq(last.prompt, 6, Len(last.prompt) - 3)

\* C7: on the grounded path the context block holds exactly the texts of the
\* matches with similarity >= similarity_threshold, in the order the matches
\* were returned, separated by blank lines, and the completion provider is
\* called exactly once.
C7_ContextBlock ==
  GroundedCase =>
    /\ last.completion_calls = 1
    /\ Len(last.prompt) >= 9
    /\ last.prompt[5] = "Context:\n"
    /\ last.prompt[Len(last.prompt) - 2] = "\n\n"
    /\ last.prompt[Len(last.prompt) - 1] = "Question: "
    /\ Len(ContextBlock) = 2 * Cardinality(ContextIndices) - 1
    /\ \A i \in ContextIndices :
         LET rank == Cardinality({j \in ContextIndices : j <= i})
         IN  ContextBlock[2 * rank - 1] = last.matches[i].text
    /\ \A k \in 1..Len(ContextBlock) :
         k % 2 = 0 => ContextBlock[k] = "\n\n"

C7_Witness ==
  /\ GroundedCase
  /\ Cardinality(ContextIndices) >= 2
  /\ \E i \in ContextIndices :
       last.matches[i].similarity = similarity_threshold
  /\ \E i \in 1..Len(last.matches) : i \notin ContextIndices
  /\ \E i \in ContextIndices, j \in 1..Len(last.matches) :
       j \notin ContextIndices /\ j < i

\* C8 (as stated): every RAGResponse send_message returns has a document_url,
\* set to the URL of the best match's Document on the grounded path and
\* absent otherwise.
C8_DocumentUrl ==
  StoreAnswered /\ last.outcome = "returned" =>
    /\ "document_url" \in DOMAIN last.response
    /\ IF GroundedCase
         THEN \E i \in 1..Len(last.matches) :
                /\ IsBest(last.matches[i].similarity)
                /\ last.response.document_url = last.matches[i].document.url
         ELSE last.response.document_url = None

\* Similarities of the stored rows against the query of the last call.
StoredSims ==
  IF last.op = "vs_query_embeddings"
    THEN [i \in 1..Len(vs_documents) |->
            Similarity(vs_documents[i].embedding, EmbeddingOf(last.message))]
    ELSE [i \in 1..Len(embeddings) |->
            Similarity(embeddings[i].embedding, EmbeddingOf(last.message))]

\* The minimum similarity the last query asked for.
QueryFloor ==
  IF last.op = "vs_query_embeddings" THEN last.threshold
  ELSE SIMILARITY_THRESHOLD

QueryReturned ==
  /\ last.op \in {"query_embeddings", "vs_query_embeddings"}
  /\ last.outcome = "returned"

\* C9 (as stated): a query returns at most `limit` matches, sorted by
\* non-increasing similarity, and when more rows qualify than the limit
\* allows, the ones returned are the most similar ones.
C9_SortedTopL ==
  QueryReturned =>
    /\ Len(last.matches) <= last.limit
    /\ \A a, b \in 1..Len(last.matches) :
         a < b => last.matches[a].similarity >= last.matches[b].similarity
    /\ \A v \in 0..MaxSim :
         v > QueryFloor =>
           Cardinality({a \in 1..Len(last.matches) :
                          last.matches[a].similarity >= v})
             = Min2(last.limit,
                    Cardinality({i \in DOMAIN StoredSims : StoredSims[i] >= v}))

C11_DeleteAtMostOne ==
  [][last'.op = "delete_embedding" =>
       /\ last'.outcome = "returned"
       /\ documents' = documents
       /\ \/ embeddings' = embeddings
          \/ \E i \in 1..Len(embeddings) :
               /\ embeddings[i].text = last'.message
               /\ embeddings' = RemoveAt(embeddings, i)
       /\ RowsWithText(last'.message) = {} => embeddings' = embeddings]_vars

\* A delete has run on a text stored twice: one copy is still there, next
\* to a chunk of another text.
C11_Witness ==
  /\ last.op = "delete_embedding"
  /\ RowsWithText(last.message) # {}
  /\ \E i \in 1..Len(embeddings) : embeddings[i].text # last.message

\* C12: add_text fails with EmbeddingsError and leaves the chunks unchanged
\* when the vector length differs from the column's dimension or the
\* document_id names no Document, with its own session and with a session
\* the caller passes.
C12_TypedErrorBothModes ==
  (/\ last.op \in {"add_text", "add_text_session"}
   /\ \/ last.dim # VectorDim
      \/ ~ \E d \in 1..Len(documents) : documents[d].id = last.document_id)
  => last.outcome = "EmbeddingsError"

\* The rows that an ingestion of that file wrote, in insertion order.
ChunksFrom(rows, file_path) ==
  SelectSeq(rows, LAMBDA e : e.embedding_metadata.source = file_path)

\* Steps in which a caller asks for a file to be ingested.
IngestionCalls ==
  {"process_pdf", "process_markdown", "ingesting", "should_process_file"}

\* C13: once a file is ingested, a further ingestion call for it, direct
\* or through process_all_documents, extracts nothing, embeds nothing,
\* opens no run and leaves the Document with the chunks of one ingestion.
C13_Idempotent ==
  [][\A f \in Files :
       (/\ IsProcessed(f)
        /\ last'.message = f
        /\ last'.op \in IngestionCalls)
       => /\ last'.op # "ingesting"
          /\ last'.extractions = 0
          /\ last'.embedding_calls = 0
          /\ runs' = runs
          /\ documents' = documents
          /\ embeddings' = embeddings
          /\ Cardinality(ChunksOf(f)) = Len(SplitNodes(f))]_vars

\* A direct call on an ingested file has returned without doing anything.
C13_Witness ==
  /\ last.op \in {"process_pdf", "process_markdown"}
  /\ last.error = None
  /\ last.extractions = 0
  /\ IsProcessed(last.message)
  /\ Cardinality(ChunksOf(last.message)) = Len(SplitNodes(last.message))

\* C14: in every committed state a processed Document owns all the chunks
\* of its ingestion: as many as the split produced, which is the
\* total_chunks each of them records.
C14_ProcessedHasAllChunks ==
  \A d \in 1..Len(documents) :
    documents[d].processed =>
      LET own == {i \in 1..Len(embeddings) :
                    embeddings[i].document_id = documents[d].id}
      IN  /\ Cardinality(own) = Len(SplitNodes(documents[d].filepath))
          /\ \A i \in own :
               embeddings[i].embedding_metadata.total_chunks
                 = Cardinality(own)

\* The two-chunk file is committed as processed while the other file's
\* ingestion is under way.
C14_Witness ==
  /\ IsProcessed("a.pdf")
  /\ Cardinality(ChunksOf("a.pdf")) = 2
  /\ \E w \in Workers : runs[w].pc = "chunking"

\* C15: an ingestion that fails or is killed after its first chunk insert
\* leaves the file not processed and none of its chunks committed; the
\* call that later gets it processed has extracted the text again and
\* leaves exactly the chunks of one ingestion.
C15_InterruptedRetry ==
  /\ [](\A f \in interrupted :
          ~IsProcessed(f) =>
            /\ ChunksFrom(embeddings, f) = <<>>
            /\ ~HasDocument(f))
  /\ [][\A f \in interrupted :
          (~IsProcessed(f) /\ IsProcessed(f)') =>
            /\ last'.op = ProcessOp(f)
            /\ last'.error = None
            /\ last'.extractions = 1
            /\ Len(ChunksFrom(embeddings', f)) = Len(SplitNodes(f))]_vars

\* The PDF, once interrupted after a flush, has been ingested by a retry.
C15_Witness ==
  /\ "a.pdf" \in interrupted
  /\ IsProcessed("a.pdf")
  /\ last.op = "process_pdf"
  /\ last.extractions = 1
  /\ last.error = None

\* C16: process_all_documents leaves no file of the directory out: while
\* it runs every file is still queued, attempted or skipped, and when it
\* returns every file was attempted or was skipped as already processed,
\* whatever failed on the way.
C16_BatchAttemptsAll ==
  /\ batch.pc = "running" =>
       \A f \in Files :
         \/ \E i \in 1..Len(batch.queue) : batch.queue[i] = f
         \/ f \in batch.attempted \cup batch.skipped
  /\ batch.skipped \cap batch.attempted = {}
  /\ (last.op = "process_all_documents" /\ last.outcome = "returned") =>
       \A f \in Files :
         /\ f \in last.attempted \cup last.skipped
         /\ f \in last.skipped => IsProcessed(f)

\* The batch has returned after the PDF failed and the Markdown file,
\* attempted after it, was ingested.
C16_Witness ==
  /\ last.op = "process_all_documents"
  /\ last.error = Some({"a.pdf"})
  /\ "b.md" \in last.attempted
  /\ IsProcessed("b.md")
  /\ ~IsProcessed("a.pdf")

\* C17: whatever ingestion calls ran, no two Documents share a filepath.
C17_OneDocumentPerFilepath ==
  \A i, j \in 1..Len(documents) :
    documents[i].filepath = documents[j].filepath => i = j

\* Both files are ingested, one of them after an interrupted attempt, and
\* a repeated call has just returned.
C17_Witness ==
  /\ Len(documents) = 2
  /\ interrupted # {}
  /\ last.op \in {"process_pdf", "process_markdown"}
  /\ last.extractions = 0

\* C18: after process_pdf was called with a URL, once or again with
\* another path, exactly one Document carries that URL.
C18_OneDocumentPerUrl ==
  (last.op = "process_pdf" /\ last.url # None) =>
    Cardinality({d \in 1..Len(documents) : documents[d].url = last.url}) = 1

\* C19: the chunks of one ingestion run are inserted in split order, the
\* i-th with chunk_index i (from 0) and total_chunks n, in the open session
\* and, once committed, among the Document's rows in insertion order.
C19_ChunkIndexInOrder ==
  /\ \A w \in Workers :
       \A i \in 1..Len(runs[w].chunks) :
         LET chunk == runs[w].chunks[i]
         IN  /\ chunk.text = runs[w].nodes[i]
             /\ chunk.embedding_metadata.chunk_index = i - 1
             /\ chunk.embedding_metadata.total_chunks = Len(runs[w].nodes)
  /\ \A f \in Files :
       LET rows == ChunksFrom(embeddings, f)
       IN  \A i \in 1..Len(rows) :
             /\ rows[i].text = SplitNodes(f)[i]
             /\ rows[i].embedding_metadata.chunk_index = i - 1
             /\ rows[i].embedding_metadata.total_chunks = Len(rows)
             /\ i > 1 => rows[i - 1].id < rows[i].id

\* The two chunks of the PDF are committed, stored after the Markdown
\* file's chunk.
C19_Witness ==
  /\ Len(ChunksFrom(embeddings, "a.pdf")) = 2
  /\ Len(embeddings) = 3
  /\ embeddings[1].embedding_metadata.source = "b.md"

\* C20: for a table, send_message is called once for each row whose
\* concatenated question is non-empty, in row order, and for no other row;
\* a row with an empty question shows the placeholder and no similarity.
C20_OneCallPerQuestion ==
  (last.op = "process_questions" /\ last.table # <<>>) =>
    LET questions == CreateConcatenatedQuestions(last.table)
    IN  /\ last.calls = SelectSeq(questions, LAMBDA q : q # "")
        /\ \A i \in 1..Len(questions) :
             questions[i] = "" =>
               /\ i <= Len(last.answers)
               /\ last.answers[i] = NotEnoughInformation
               /\ last.scores[i] = "N/A"

\* C21: in a produced table the Answers cell of a row is the text the
\* answer engine returned exactly when the row's similarity is present and
\* at or above the display threshold, and the placeholder otherwise; the
\* Similarity Score cell is "N/A" exactly when the similarity is absent.
C21_DisplayGate ==
  (last.op = "process_questions" /\ last.answers # <<>>) =>
    /\ Len(last.answers) = Len(last.results)
    /\ Len(last.scores) = Len(last.results)
    /\ \A i \in 1..Len(last.results) :
         LET score == last.results[i].max_similarity
         IN  /\ IF score # None /\ score[1] >= MIN_SIMILARITY_TO_ANSWER
                  THEN last.answers[i] = last.results[i].text
                  ELSE last.answers[i] = NotEnoughInformation
             /\ (last.scores[i] = "N/A") <=> (score = None)

\* A table came out with one row exactly at the display threshold, shown,
\* and one row without similarity.
C21_Witness ==
  /\ last.op = "process_questions"
  /\ \E i \in 1..Len(last.results) :
       /\ last.results[i].max_similarity = Some(MIN_SIMILARITY_TO_ANSWER)
       /\ last.answers[i] \in Completions
  /\ \E i \in 1..Len(last.results) :
       /\ last.results[i].max_similarity = None
       /\ last.scores[i] = "N/A"

\* C23: a failure while one row of a table is answered costs that row
\* only: the table still comes out, with a cell for every row.
C23_RowFailureIsolated ==
  (last.op = "process_questions" /\ last.table # <<>>) =>
    /\ Len(last.answers) = Len(last.table)
    /\ Len(last.scores) = Len(last.table)

\* C24: a send_message call during which the embedding provider, the store
\* query or the completion provider failed ends in a raised error and
\* carries no response, neither a decline nor an empty answer.
C24_FailurePropagates ==
  (last.op = "send_message" /\ last.failure # "none") =>
    /\ last.outcome \in {"EmbeddingsError", CompletionError}
    /\ last.response = NoCall.response
    /\ last.failure = "embedding" => last.completion_calls = 0

\* The completion provider failed on a prompt built from stored context.
C24_Witness ==
  /\ last.op = "send_message"
  /\ last.failure = "completion"
  /\ last.outcome = CompletionError
  /\ RelevantDocs(last.matches) # <<>>

\* C28: every match send_message gets from the store is at or above
\* SIMILARITY_THRESHOLD; so with MIN_SIMILARITY_TO_ANSWER at or below that
\* floor a decline only happens without candidates, max_similarity absent.
C28_StoreFloorFirst ==
  (last.op = "send_message" /\ last.failure # "embedding") =>
    /\ \A i \in 1..Len(last.matches) :
         last.matches[i].similarity >= SIMILARITY_THRESHOLD
    /\ (/\ MIN_SIMILARITY_TO_ANSWER <= SIMILARITY_THRESHOLD
        /\ last.completion_calls = 0) =>
         /\ last.matches = <<>>
         /\ last.response = DeclineResponse(None)

\* With the answer floor below the store's floor, a match exactly at the
\* store's floor was answered.
C28_Witness ==
  /\ last.op = "send_message"
  /\ MIN_SIMILARITY_TO_ANSWER < SIMILARITY_THRESHOLD
  /\ last.completion_calls = 1
  /\ \E i \in 1..Len(last.matches) :
       last.matches[i].similarity = SIMILARITY_THRESHOLD

\* C26: an ingestion call that fails after it created its Document row
\* commits nothing, neither the Document nor a chunk; so a committed
\* Document owns no chunk or all total_chunks of them.
C26_AllOrNothing ==
  /\ [](\A d \in 1..Len(documents) :
          LET own == {i \in 1..Len(embeddings) :
                        embeddings[i].document_id = documents[d].id}
          IN  \/ own = {}
              \/ \A i \in own :
                   embeddings[i].embedding_metadata.total_chunks
                     = Cardinality(own))
  /\ [][(\E w \in Workers :
           /\ runs[w].pc # "idle"
           /\ runs'[w].pc = "idle"
           /\ last'.error # None)
        => /\ documents' = documents
           /\ embeddings' = embeddings]_vars

\* The PDF's ingestion broke at the store after both chunks were embedded,
\* and no Document of it is committed.
C26_Witness ==
  /\ last.op = "process_pdf"
  /\ last.error = Some("store")
  /\ last.embedding_calls = 2
  /\ ~HasDocument("a.pdf")

\* C27: however two ingestion runs of one path interleave, the committed
\* store holds at most one Document of the path and at most one copy of its
\* chunks, and once the path is committed no other run adds to it.
C27_RaceOneWinner ==
  /\ [](/\ \A i, j \in 1..Len(documents) :
             documents[i].filepath = documents[j].filepath => i = j
        /\ \A f \in Files :
             Len(ChunksFrom(embeddings, f)) \in {0, Len(SplitNodes(f))})
  /\ [][\A f \in Files :
          IsProcessed(f) =>
            /\ ChunksFrom(embeddings', f) = ChunksFrom(embeddings, f)
            /\ IsProcessed(f)']_vars

\* A run that looked the path up before the other run committed it was
\* refused at its INSERT and has returned, nothing extracted.
C27_Witness ==
  /\ last.op = "process_pdf"
  /\ last.error = Some("IntegrityError")
  /\ last.extractions = 0
  /\ IsProcessed("a.pdf")
  /\ Len(ChunksFrom(embeddings, "a.pdf")) = 2

\* The line process_excel_attachment reports for an Excel file.
ReportedLine(file, verdict, message) ==
  "File '" \o file.filename \o "' " \o verdict \o ": " \o message

\* The result line of the i-th Excel file of the email in hand.
LineOf(i) == runner.results[Len(runner.skipped_files) + i]

\* C22: an attachment whose table is empty or unreadable gets its own
\* "could not be processed" line and no output file; the loop goes on, so
\* that every Excel file has its line when process_excel_attachment returns,
\* and no exception leaves the call.
C22_PerFileFailure ==
  /\ runner.next <= Len(runner.excel_files) + 1
  /\ Len(runner.results) = Len(runner.skipped_files) + runner.next - 1
  /\ \A i \in 1..(runner.next - 1) :
       LET file == runner.excel_files[i]
       IN  /\ \/ \E m \in {"Processed questions successfully"} :
                   LineOf(i) = ReportedLine(file, "processed successfully", m)
              \/ \E m \in {ReadError, "Excel file is empty",
                           "Error processing questions"} :
                   LineOf(i) = ReportedLine(file, "could not be processed", m)
           /\ ~file.excel_file.readable \/ file.excel_file.df = <<>> =>
                /\ LineOf(i) =
                     ReportedLine(file, "could not be processed",
                                  IF file.excel_file.readable
                                  THEN "Excel file is empty" ELSE ReadError)
                /\ \A j \in 1..Len(runner.processed_files) :
                     runner.processed_files[j].part # file.part
  /\ runner.summary # None => runner.next = Len(runner.excel_files) + 1
  /\ runner.pc = "exited" /\ runner.rag_response # None =>
       runner.summary # None

\* An unreadable first attachment, and the second one answered and attached.
C22_Witness ==
  /\ runner.summary # None
  /\ Len(runner.excel_files) = 2
  /\ ~runner.excel_files[1].excel_file.readable
  /\ Len(runner.processed_files) = 1
  /\ runner.processed_files[1].part = runner.excel_files[2].part
  /\ runner.processed_files[1].output.answers = <<"Test response">>

\* C25: an email gets at most one reply, sent only by the step that found
\* the body answered, the attachments processed and the template rendered;
\* an email whose processing raised has none.
C25_ReplyOnlyAfterSuccess ==
  /\ [](/\ \A i, j \in 1..Len(runner.replies) :
             runner.replies[i].email = runner.replies[j].email => i = j
        /\ runner.error # None =>
             \A i \in 1..Len(runner.replies) :
               runner.replies[i].email # runner.consumed)
  /\ [][runner.replies' # runner.replies =>
          /\ runner.pc = "attachments"
          /\ runner.rag_response # None
          /\ runner.next = Len(runner.excel_files) + 1
          /\ RenderOutcome(runner.rag_response[1], FileCounts(runner))
               = "rendered"
          /\ runner'.error = None
          /\ runner.replies' =
               Append(runner.replies,
                      [email |-> runner.consumed,
                       attachments |-> runner.processed_files])]_vars

\* The body was answered and the attachments processed, reading the
\* response for the template raised, and no reply went out.
C25_Witness ==
  /\ runner.pc = "exited"
  /\ runner.error = Some("AttributeError")
  /\ runner.rag_response # None
  /\ runner.rag_response[1].text = "Test response"
  /\ runner.summary # None
  /\ runner.replies = <<>>

\* C29: an email is taken only by the polling loop, one after the other,
\* and the loop is entered only from a completed setup and ingestion; a
\* failed setup returns for good without polling; an email that raises ends
\* run for good with close() called exactly once.
C29_RunLifecycle ==
  /\ [](/\ runner.pc = "returned" =>
             runner.consumed = 0 /\ runner.error # None
        /\ runner.close_calls = IF runner.pc = "exited" THEN 1 ELSE 0
        /\ runner.error # None => runner.pc \in {"returned", "exited"}
        /\ runner.pc \in {"start", "setup", "ingesting"} =>
             runner.consumed = 0)
  /\ [][/\ runner.consumed' # runner.consumed =>
             /\ runner.pc = "polling"
             /\ batch.pc = "idle"
             /\ runs["startup"].pc = "idle"
             /\ runner.consumed' = runner.consumed + 1
        /\ runner.pc' = "polling" /\ runner.pc = "start" => FALSE
        /\ runner.pc' = "polling" /\ runner.pc = "ingesting" =>
             batch.queue = <<>> /\ batch'.pc = "idle"
        /\ runner.pc \in {"returned", "exited"} => runner' = runner]_vars

\* The first email raised while its body was answered: run is over, the
\* database closed once.
C29_Witness ==
  /\ runner.pc = "exited"
  /\ runner.consumed = 1
  /\ runner.error = Some("EmbeddingsError")
  /\ runner.close_calls = 1
  /\ runner.summary = None

\* C30: the counts computed for render_template are never negative and the
\* processed, failed and skipped files add up to the attachments, so the
\* count test of the template does not raise.
C30_CountsAddUp ==
  /\ runner.counts.num_attachments >= 0
  /\ runner.counts.num_processed_files >= 0
  /\ runner.counts.num_failed_files >= 0
  /\ runner.counts.num_skipped_files >= 0
  /\ runner.counts.num_processed_files + runner.counts.num_failed_files
       + runner.counts.num_skipped_files = runner.counts.num_attachments
  /\ runner.error # Some("ValueError")

\* Two attachments of one filename, both answered: one dict entry, so one
\* file counts as processed and one as failed.
C30_Witness ==
  /\ runner.summary # None
  /\ Len(runner.excel_files) = 2
  /\ runner.excel_files[1].filename = runner.excel_files[2].filename
  /\ LineOf(1) = ReportedLine(runner.excel_files[1], "processed successfully",
                              "Processed questions successfully")
  /\ LineOf(2) = ReportedLine(runner.excel_files[2], "processed successfully",
                              "Processed questions successfully")
  /\ runner.counts = [num_attachments |-> 2, num_processed_files |-> 1,
                      num_failed_files |-> 1, num_skipped_files |-> 0]

====
